---- MODULE Spec2Model ----
(***************************************************************************)
(* Atlas projection and capybara scoring of wellslab/s4m-api               *)
(* (src/models/atlases.py, src/resources/atlases.py) as a state machine.   *)
(*                                                                         *)
(* One behaviour is one call: either Atlas.projection called directly, or  *)
(* AtlasProjection.post calling it.  The atlas files, the query matrix and *)
(* the options are chosen in Init; every step of the call is one action.   *)
(*                                                                         *)
(* Representation                                                          *)
(*   gene ids        naturals                                              *)
(*   sample ids      strings                                               *)
(*   DataFrame       [index, columns, data], data column-major: data[j][i] *)
(*                   is the cell of row index[i] and column columns[j]     *)
(*   missing cell    NA                                                    *)
(*   rank values     rankTransform output times 2*N (N rows), an integer   *)
(*   atlas values    expression value times AtlasDen, an integer           *)
(*   solver weights  multiples of 1/GridDen; reported in units of         *)
(*                   1/ScoreUnit                                           *)
(***************************************************************************)
EXTENDS Integers, Sequences, FiniteSets, TLC

VARIABLES
    atlasFiles,             \* the files of the atlas directory: "ok", "missing" or "malformed"
    atlas,                  \* the atlas files read by Atlas(atlasType)
    caller,                 \* "direct" (Atlas.projection) or "endpoint" (AtlasProjection.post)
    dataSource,             \* endpoint only: "stemformatics", "user" or "user-single"
    name,                   \* projection(name, ...)
    queryData,              \* projection(..., queryData, ...)
    includeCombinedCoords,
    includeCapybara,
    includeRandomSamples,
    pc,                     \* position of the call
    result,                 \* the dictionary Atlas.projection builds and returns
    commonGenes,            \* local of projection (line 179)
    aligned,                \* queryData.reindex(df.index).fillna(0) (line 196)
    dfQuery,                \* local of projection (lines 196-201)
    rndCols,                \* random.sample(dfQuery.columns.tolist(), n), not yet consumed
    rndI,                   \* loop index i of line 200
    calls,                  \* the computations performed so far, in order
    solverStatus,           \* solution['status'] of every solvers.qp call (line 291)
    response,               \* what AtlasProjection.post returns
    solversOptions,         \* cvxopt.solvers.options, one dictionary per process
    randomState,            \* the generator of the random module, one per process:
                            \* the number of random.sample calls it has served
    callPc,                 \* concurrent calls: the position of each call
    callArgs,               \* concurrent calls: the arguments of each call
    callStart,              \* concurrent calls: randomState when the call began
    callDraws,              \* concurrent calls: the draws each call was served
    accesses,               \* concurrent calls: the reads and writes of process state
    geneIds,                \* heatmapData(geneIds, ...), as the caller passed it
    groupby,                \* heatmapData(..., groupby, ...): a sample column or "None"
    coloursFile,            \* whether the atlas directory holds colours.json
    hmPc,                   \* position of the heatmapData call
    hmLists,                \* locals geneIds (from line 308 on), filtered, unfiltered
                            \* and notFound of heatmapData
    hmResult,               \* what heatmapData returns
    atlasFilePathEnv,       \* os.environ['ATLAS_FILEPATH']
    cwd,                    \* the working directory of the server process
    currentLink,            \* the version the link <atlasType> points to
    requests,               \* the number of requests the server has taken
    svcPc,                  \* position of the request being served
    atlasObject,            \* the Atlas object of the projection request
    versionsRead,           \* the versions the projection request read its files from
    logFiles,               \* the app.log files the tracer appended to, in order
    listedDirs              \* the directories atlasTypes listed, in order

vars == <<atlasFiles, atlas, caller, dataSource, name, queryData, includeCombinedCoords,
          includeCapybara, includeRandomSamples, pc, result, commonGenes,
          aligned, dfQuery, rndCols, rndI, calls, solverStatus, response,
          solversOptions, randomState, callPc, callArgs, callStart, callDraws, accesses,
          geneIds, groupby, coloursFile, hmPc, hmLists, hmResult,
          atlasFilePathEnv, cwd, currentLink, requests, svcPc, atlasObject,
          versionsRead, logFiles, listedDirs>>

inputs == <<atlasFiles, atlas, caller, dataSource, name, queryData, includeCombinedCoords,
            includeCapybara, includeRandomSamples>>

\* the state of the process, shared by every call it serves
process == <<solversOptions, randomState>>

\* the variables of the specification of concurrent calls
concurrent == <<callPc, callArgs, callStart, callDraws, accesses>>

\* the variables of the specification of heatmapData
heatmap == <<geneIds, groupby, coloursFile, hmPc, hmLists, hmResult>>

\* the variables of the specification of the server process
service == <<atlasFilePathEnv, cwd, currentLink, requests, svcPc, atlasObject,
             versionsRead, logFiles, listedDirs>>

\* the variables of one projection call
projection == <<atlasFiles, caller, dataSource, name, queryData, includeCombinedCoords,
                includeCapybara, includeRandomSamples, pc, result, commonGenes,
                aligned, dfQuery, rndCols, rndI, calls, solverStatus, response>>

----------------------------------------------------------------------------
(* Bounds of the model *)

NumGenes == 4
MaxRows == 3
MaxCols == 4
GridDen == 4

----------------------------------------------------------------------------
(* Generic helpers *)

Range(s) == {s[i] : i \in DOMAIN s}

Min(a, b) == IF a < b THEN a ELSE b

RECURSIVE SumSeq(_)
SumSeq(s) == IF s = <<>> THEN 0 ELSE Head(s) + SumSeq(Tail(s))

\* the sequences over S of length 0..n
SeqsUpTo(S, n) == UNION {[1..k -> S] : k \in 0..n}

\* the permutations of 1..n
Perms(n) == {p \in [1..n -> 1..n] : \A i, j \in 1..n : p[i] = p[j] => i = j}

\* the orderings of k distinct elements of 1..n
Arrangements(n, k) == {p \in [1..k -> 1..n] : \A i, j \in 1..k : p[i] = p[j] => i = j}

\* position of x in s (x occurs in s)
IndexOf(s, x) == CHOOSE i \in DOMAIN s : s[i] = x

\* a missing cell (pandas NaN); expression values are >= 0
NA == 0 - 1

EmptyFrame == [index |-> <<>>, columns |-> <<>>, data |-> <<>>]

\* len(df): the number of rows
FrameLen(df) == Len(df.index)

----------------------------------------------------------------------------
(* rankTransform, src/models/atlases.py:25-40 *)

\* a is ranked before b by df.rank(ascending=False, na_option='bottom'):
\* larger values first, missing values last
RankedBefore(a, b) == /\ a # NA
                      /\ (b = NA \/ a > b)

\* a faulty variant: tied values get the first of the ranks they occupy
M_RankColumnMin(col) ==
    [i \in 1..Len(col) |->
        2 * Len(col) - 2 * Cardinality({j \in 1..Len(col) : RankedBefore(col[j], col[i])})]

\* a faulty variant: the ranks are taken in ascending order
M_RankColumnAscending(col) ==
    [i \in 1..Len(col) |->
        2 * Len(col) + 1
        - 2 * Cardinality({j \in 1..Len(col) : RankedBefore(col[i], col[j])})
        - Cardinality({j \in 1..Len(col) : col[j] = col[i]})]

\* a faulty variant: tied values are ranked in the order of their rows
M_RankColumnFirst(col) ==
    [i \in 1..Len(col) |->
        2 * Len(col)
        - 2 * Cardinality({j \in 1..Len(col) :
                              \/ RankedBefore(col[j], col[i])
                              \/ col[j] = col[i] /\ j < i})]

\* a faulty variant: missing values are ranked as the highest of the column
M_RankColumnNaTop(col) ==
    [i \in 1..Len(col) |->
        2 * Len(col) + 1
        - 2 * Cardinality({j \in 1..Len(col) :
                              \/ col[j] = NA /\ col[i] # NA
                              \/ col[j] # NA /\ col[i] # NA /\ col[j] > col[i]})
        - Cardinality({j \in 1..Len(col) : col[j] = col[i]})]

\* One column of rankTransform, times 2*N.  A value with a values ranked
\* before it and t values tied with it (itself included) has the average
\* descending rank r = a + (t+1)/2, and (N - r + 1)/N * 2N = 2N + 1 - 2a - t.
RankColumn(col) ==
    LET N == Len(col)
    IN  [i \in 1..N |->
            LET a == Cardinality({j \in 1..N : RankedBefore(col[j], col[i])})
                t == Cardinality({j \in 1..N : col[j] = col[i]})
            IN  2 * N + 1 - 2 * a - t]

\* a faulty variant: the matrix is returned as it came
M_rankTransformNothing(df) == df

rankTransform(df) ==
    [df EXCEPT !.data = [j \in DOMAIN df.data |-> RankColumn(df.data[j])]]

----------------------------------------------------------------------------
(* pandas operations used by Atlas.projection and Atlas.capybara *)

\* queryData.index.intersection(df.index): the labels of both, without repeats
IndexIntersection(a, b) == Range(a) \cap Range(b)

\* len(queryData) != len(set(queryData.index))
HasDuplicateIndex(df) == Len(df.index) # Cardinality(Range(df.index))

\* df.reindex(newIndex) of a frame whose index has no repeats: the rows in
\* the order of newIndex, a row of NaN for a label df does not have
Reindex(df, newIndex) ==
    [index   |-> newIndex,
     columns |-> df.columns,
     data    |-> [j \in DOMAIN df.data |->
                    [p \in DOMAIN newIndex |->
                        IF newIndex[p] \in Range(df.index)
                        THEN df.data[j][IndexOf(df.index, newIndex[p])]
                        ELSE NA]]]

\* a faulty variant: nothing is filled
M_FillNaNothing(df, v) == df

\* df.fillna(v)
FillNa(df, v) ==
    [df EXCEPT !.data = [j \in DOMAIN df.data |->
                            [p \in DOMAIN df.data[j] |->
                                IF df.data[j][p] = NA THEN v ELSE df.data[j][p]]]]

\* df[col] of a frame with distinct column labels
Column(df, col) == df.data[IndexOf(df.columns, col)]

\* df[col] = values: replaces the column labelled col when df has one,
\* appends a new last column otherwise
SetColumn(df, col, values) ==
    IF col \in Range(df.columns)
    THEN [df EXCEPT !.data[IndexOf(df.columns, col)] = values]
    ELSE [df EXCEPT !.columns = Append(df.columns, col),
                    !.data = Append(df.data, values)]

\* a faulty variant: the values are drawn with replacement
M_ShuffledWithReplacement(values, p) == [i \in DOMAIN values |-> values[p[1]]]

\* random.sample(values, len(values)) under the permutation p
Shuffled(values, p) == [i \in DOMAIN values |-> values[p[i]]]

\* the multiset of the values of a column, as a function value -> count
Multiset(col) ==
    [v \in Range(col) |-> Cardinality({i \in DOMAIN col : col[i] = v})]

----------------------------------------------------------------------------
(* The atlas files: expression.filtered.tsv, genes.tsv, samples.tsv *)

\* Atlas values are stored times AtlasDen: 1 is the value 0.5, 2 the value 1.0
AtlasDen == 2

\* Two genes and three samples; gene 3 is in genes.tsv but not an inclusion gene.
AtlasDc ==
    [atlasType |-> "dc",
     expressionFiltered |->
        [index   |-> <<2, 1>>,
         columns |-> <<"1_a", "1_b", "2_a">>,
         data    |-> << <<2, 1>>, <<2, 1>>, <<1, 2>> >>],
     geneInfo |-> [index |-> <<1, 2, 3>>, inclusion |-> {1, 2}],
     sampleMatrix |->
        [index   |-> <<"1_a", "1_b", "2_a">>,
         columns |-> <<"Cell Type", "Tissue">>,
         data    |-> << <<"cDC1", "cDC1", "monocyte">>,
                        <<"blood", "bone marrow", "bone marrow">> >>]]

\* Three genes and two samples, one sample annotation with a single value.
AtlasMyeloid ==
    [atlasType |-> "myeloid",
     expressionFiltered |->
        [index   |-> <<3, 1, 2>>,
         columns |-> <<"7_x", "7_y">>,
         data    |-> << <<1, 2, 2>>, <<2, 2, 2>> >>],
     geneInfo |-> [index |-> <<1, 2, 3>>, inclusion |-> {1, 2, 3}],
     sampleMatrix |->
        [index   |-> <<"7_x", "7_y">>,
         columns |-> <<"Cell Type">>,
         data    |-> << <<"macrophage", "macrophage">> >>]]

Atlases == {AtlasDc, AtlasMyeloid}

\* self.expressionMatrix(filtered=True)
expressionMatrix(a) == a.expressionFiltered

\* self.sampleMatrix()
sampleMatrix(a) == a.sampleMatrix

\* genes[genes["inclusion"]] of self.geneInfo()
InclusionGenes(a) == a.geneInfo.inclusion

----------------------------------------------------------------------------
(* The query matrices *)

Genes == 1..NumGenes

\* The cell of gene g in the j-th column of a query of the given kind:
\*   "distinct"  no two genes of a column have the same value
\*   "tied"      all genes of a column have the same value
\*   "missing"   the column has one missing cell
QueryValue(kind, g, j) ==
    CASE kind = "distinct" -> g + j
      [] kind = "tied"     -> j
      [] kind = "missing"  -> IF g = j THEN NA ELSE g

Kinds == {"distinct", "tied", "missing"}

\* The sample ids of a query are the first columns of one of these lists.
PlainColumns == <<"a", "b", "c", "d", "e", "f">>

ColumnLists ==
    {PlainColumns,
     <<"random_0", "a", "b", "c", "d", "e">>,
     <<"a", "random_1", "random_0", "b", "c", "d">>}

MakeQuery(index, ncols, names, kind) ==
    [index   |-> index,
     columns |-> SubSeq(names, 1, ncols),
     data    |-> [j \in 1..ncols |->
                    [i \in DOMAIN index |-> QueryValue(kind, index[i], j)]]]

\* Every row index of up to MaxRows genes, repeats included
AllIndexes == SeqsUpTo(Genes, MaxRows)

\* Row indexes without repeats that share at least half of the inclusion
\* genes with both atlases
GoodIndexes == {<<1, 2>>, <<2, 1>>, <<4, 2, 1>>, <<1, 3, 2>>}

QueryNames == {"test", "1"}

----------------------------------------------------------------------------
(* Atlas.projection, src/models/atlases.py:153-232 *)

ErrZeroRows ==
    "Data to project appears to have 0 rows. Check format of the file."

ErrDuplicateIndex ==
    "This expression data contain duplicate index. Please remove these first."

ErrNoCommonGenes ==
    "No genes common between query data and atlas, likely due to row ids not being Ensembl ids."

ErrLowOverlap(c) ==
    "Less than 50% of genes in query data are common with atlas ("
        \o ToString(c) \o " common). This may lead to an unreliable result."

\* a faulty variant: the cutoff taken inclusively
M_LowOverlapInclusive(c, g) == 2 * c <= g

\* len(commonGenes)/len(genes[genes["inclusion"]]) < 0.5, for g > 0
LowOverlap(c, g) == 2 * c < g

\* a faulty variant: the checks of lines 184-188 left out
M_ValidationErrorNoGeneChecks(q, a) ==
    IF HasDuplicateIndex(q) THEN ErrDuplicateIndex
    ELSE IF FrameLen(q) = 0 THEN ErrZeroRows ELSE ""

\* a faulty variant: the check of lines 181-182 left out
M_ValidationErrorNoDuplicateCheck(q, a) ==
    LET c == Cardinality(IndexIntersection(q.index, expressionMatrix(a).index))
        g == Cardinality(InclusionGenes(a))
    IN  IF c = 0 THEN ErrNoCommonGenes
        ELSE IF 2 * c < g THEN ErrLowOverlap(c)
        ELSE IF FrameLen(q) = 0 THEN ErrZeroRows ELSE ""

\* The value of result["error"] at line 190: each check that fires assigns
\* result["error"], in the order of lines 172, 181, 184, 187.
ValidationError(q, a) ==
    LET c  == Cardinality(IndexIntersection(q.index, expressionMatrix(a).index))
        g  == Cardinality(InclusionGenes(a))
        e1 == IF FrameLen(q) = 0 THEN ErrZeroRows ELSE ""
        e2 == IF HasDuplicateIndex(q) THEN ErrDuplicateIndex ELSE e1
    IN  IF c = 0 THEN ErrNoCommonGenes
        ELSE IF LowOverlap(c, g) THEN ErrLowOverlap(c)
        ELSE e2

\* pandas.DataFrame()
EmptyCoords == [index |-> <<>>, ncols |-> 0, rows |-> <<>>]

\* line 169; the dictionary has no "capybara" key until line 230
InitialResult(nm) ==
    [error |-> "", coords |-> EmptyCoords, name |-> nm,
     combinedCoords |-> EmptyCoords, hasCapybara |-> FALSE, capybara |-> <<>>]

\* line 199: max 3 random columns chosen from dfQuery
MaxRandomSamples == 3

RandomCount(ncols) == IF ncols > 2 THEN MaxRandomSamples ELSE ncols

\* line 201: f"random_{i}"
RandomName(i) == "random_" \o ToString(i)

\* line 205: PCA(n_components=10, svd_solver='full')
NumComponents == 10

\* line 209 and 214: [:,:3]
KeptDimensions == 3

\* The coordinates of the samples (columns) of a gene x sample matrix under
\* the PCA fitted on the atlas.  The decomposition is not computed: the
\* coordinate row of a sample is represented by the sample's vector, which
\* it is a function of, and cut to the first KeptDimensions dimensions.
PcaCoords(df) ==
    [index |-> df.columns,
     ncols |-> Min(KeptDimensions, NumComponents),
     rows  |-> df.data]

\* line 213: "%s_%s" % (name, item)
Prefixed(nm, item) == nm \o "_" \o item

PrefixIndex(nm, coords) ==
    [coords EXCEPT !.index = [i \in DOMAIN coords.index |->
                                 Prefixed(nm, coords.index[i])]]

\* line 216: pandas.concat([coords, projectedCoords])
ConcatCoords(a, b) ==
    [index |-> a.index \o b.index, ncols |-> b.ncols, rows |-> a.rows \o b.rows]

----------------------------------------------------------------------------
(* Atlas.capybara, src/models/atlases.py:234-299 *)

\* df.index.intersection(query.index): the shared genes, in the atlas order
SharedGenes(a, q) ==
    SelectSeq(expressionMatrix(a).index, LAMBDA g : g \in Range(q.index))

\* anno.unique(): the values in the order of their first appearance
RECURSIVE Unique(_)
Unique(s) ==
    IF s = <<>> THEN <<>>
    ELSE LET rest == Unique(SubSeq(s, 1, Len(s) - 1))
             last == s[Len(s)]
         IN  IF last \in Range(rest) THEN rest ELSE Append(rest, last)

\* a faulty variant: every atlas sample counts for every category
M_SamplesOfAll(anno, cat) == DOMAIN anno

\* the atlas samples (positions in samples.index) whose anno equals cat
SamplesOf(anno, cat) == {k \in DOMAIN anno : anno[k] = cat}

RECURSIVE SumOver(_, _)
SumOver(f, S) ==
    IF S = {} THEN 0
    ELSE LET k == CHOOSE k \in S : TRUE IN f[k] + SumOver(f, S \ {k})

RECURSIVE Product(_)
Product(s) == IF s = <<>> THEN 1 ELSE Head(s) * Product(Tail(s))

\* lines 257-261: the atlas matrix with its columns in the order of
\* samples.index and its rows cut to the shared genes
ReferenceFrame(a, q) ==
    LET df     == expressionMatrix(a)
        sm     == sampleMatrix(a)
        shared == SharedGenes(a, q)
    IN  [index   |-> shared,
         columns |-> sm.index,
         data    |-> [k \in DOMAIN sm.index |->
                        LET col == Column(df, sm.index[k])
                        IN  [p \in DOMAIN shared |-> col[IndexOf(df.index, shared[p])]]]]

\* lines 260, 264: the query cut to the shared genes, then rank transformed
CapybaraQuery(a, q) == rankTransform(Reindex(q, SharedGenes(a, q)))

\* lines 270-272: the reference matrix of one annotation.  Row i is the mean
\* of the atlas samples of category i; it is kept as an integer vector,
\* the mean times CatScale(anno) * AtlasDen.
CatScale(anno) ==
    Product([i \in DOMAIN Unique(anno) |->
                Cardinality(SamplesOf(anno, Unique(anno)[i]))])

Reference(df, anno) ==
    LET cats  == Unique(anno)
        scale == CatScale(anno)
    IN  [i \in DOMAIN cats |->
            LET members == SamplesOf(anno, cats[i])
            IN  [p \in DOMAIN df.index |->
                    SumOver([k \in DOMAIN anno |-> df.data[k][p]], members)
                        * (scale \div Cardinality(members))]]

RECURSIVE DotTo(_, _, _)
DotTo(u, v, n) == IF n = 0 THEN 0 ELSE u[n] * v[n] + DotTo(u, v, n - 1)

\* the inner product of two vectors of one length
Dot(u, v) == DotTo(u, v, Len(u))

\* lines 274-282: G = vstack(-I, A), h = vstack(0, b), with A a row of ones
\* and b = 1: the rows -x_i <= 0 and the row sum(x) <= 1
GMatrix(n) ==
    [r \in 1..(n + 1) |->
        [c \in 1..n |-> IF r <= n THEN (IF r = c THEN 0 - 1 ELSE 0) ELSE 1]]

hVector(n) == [r \in 1..(n + 1) |-> IF r <= n THEN 0 ELSE 1]

\* G x <= h for the weights x = X / GridDen
Feasible(G, h, X) ==
    \A r \in DOMAIN G : Dot(G[r], X) <= h[r] * GridDen

\* the grid points of the feasible set: by the rows of G, every weight is
\* at least -h[i] and at most the sum of h
FeasibleGrid(G, h, n) ==
    {X \in [1..n -> (0 - SumSeq(SubSeq(h, 1, n))) * GridDen..SumSeq(h) * GridDen] :
        Feasible(G, h, X)}

\* the vertices of the feasible set, the points where all rows of G x <= h
\* but at most one hold with equality: the feasible set is their convex hull
Corners(G, h, n) ==
    {Z : Z \in {X \in FeasibleGrid(G, h, n) :
                   Cardinality({r \in DOMAIN G : Dot(G[r], X) # h[r] * GridDen}) <= 1}}

\* line 273: P = reference.dot(reference.transpose()), times the square of
\* scale * AtlasDen
PMatrix(R) == [i \in DOMAIN R |-> [j \in DOMAIN R |-> Dot(R[i], R[j])]]

\* lines 286-287: q = reference.dot(-1.0 * y) for y = Y / (2 N), times
\* scale * AtlasDen * 2 N
QVector(R, Y) == [i \in DOMAIN R |-> 0 - Dot(R[i], Y)]

\* The gradient P x + q of the objective 1/2 x'Px + q'x at x = X / GridDen,
\* times the positive factor (scale * AtlasDen)^2 * GridDen * 2 N
Gradient(P, q, unit, N, X) ==
    [i \in DOMAIN P |-> 2 * N * Dot(P[i], X) + unit * GridDen * q[i]]

\* solvers.qp(P, q, G, h): the minimisers of the convex objective over
\* G x <= h.  X is one iff no feasible direction descends: the gradient at
\* X has a non-negative product with Z - X for every corner Z of the
\* feasible set.
QpSolutions(P, q, G, h, unit, N) ==
    UNION {{X \in grid :
               \E g \in {Gradient(P, q, unit, N, X)} :
                   \E gX \in {Dot(g, X)} :
                       \A Z \in corners : Dot(g, Z) >= gX} :
              grid \in {FeasibleGrid(G, h, Len(P))},
              corners \in {Corners(G, h, Len(P))}}

\* line 292: numpy.round(x, 6)
RoundDecimals == 6

\* The solver's x is held in units of 1/RawUnit, one decimal more than
\* the reported scores, which are in units of 1/ScoreUnit.
ScoreUnit == 10 ^ RoundDecimals

RawUnit == 10 * ScoreUnit

\* The solver's answer is off the minimiser by at most SolverNoise/RawUnit
\* (solvers.options tolerances are left at their defaults, lines 251-254)
SolverNoise == 1

\* numpy.round of raw/RawUnit to RoundDecimals decimals, in units of
\* 1/ScoreUnit: to the nearest, a half to the even neighbour
Round6(raw) ==
    LET q == raw \div 10
        r == raw % 10
    IN  IF r > 5 THEN q + 1
        ELSE IF r < 5 THEN q
        ELSE IF q % 2 = 0 THEN q ELSE q + 1

\* line 292: the rows cell_score.iloc[i,:] may get from one solution
ScoreRows(sols, n) ==
    {[k \in 1..n |-> Round6(X[k] * (RawUnit \div GridDen) + e[k])] :
        X \in sols, e \in [1..n -> (0 - SolverNoise)..SolverNoise]}

\* lines 285-292: for every query sample, the rows its solution may give
SolveRows(R, P, G, h, unit, qr) ==
    [i \in DOMAIN qr.columns |->
        UNION {ScoreRows(QpSolutions(P, q, G, h, unit, FrameLen(qr)), Len(R)) :
                  q \in {QVector(R, qr.data[i])}}]

\* lines 284, 297: the tables cell_score may be, one row from each sample
TablesFrom(cats, qr, rows) ==
    {[index |-> qr.columns, columns |-> cats, rows |-> t] :
        t \in {t \in [DOMAIN qr.columns -> UNION Range(rows)] :
                  \A i \in DOMAIN qr.columns : t[i] \in rows[i]}}

\* lines 267-297: the score tables one annotation column may get
ScoreTables(a, q, c) ==
    UNION {UNION {UNION {TablesFrom(Unique(anno), qr, rows) :
                            rows \in {SolveRows(R, P, G, h,
                                                CatScale(anno) * AtlasDen, qr)}} :
                     P \in {PMatrix(R)},
                     G \in {GMatrix(Len(R))},
                     h \in {hVector(Len(R))}} :
              anno \in {sampleMatrix(a).data[c]},
              qr \in {CapybaraQuery(a, q)},
              R \in {Reference(ReferenceFrame(a, q), sampleMatrix(a).data[c])}}

\* the dictionaries self.capybara(query) may return, one table per column
\* of samples (in the order of samples.columns)
capybara(a, q) ==
    UNION {{d \in [DOMAIN tables -> UNION Range(tables)] :
               \A c \in DOMAIN tables : d[c] \in tables[c]} :
              tables \in {[c \in DOMAIN sampleMatrix(a).columns |->
                             ScoreTables(a, q, c)]}}

\* Every quadratic program of capybara(a, q) has its minimiser on the grid
Representable(a, q) == capybara(a, q) # {}

\* solution['status'] of solvers.qp: 'optimal', or 'unknown' when the
\* iteration limit is reached; solution['x'] is then the last iterate
StatusOptimal == "optimal"

StatusUnknown == "unknown"

\* the rows line 292 may store from a last iterate: any feasible point
LastIterateRows(n) ==
    ScoreRows(FeasibleGrid(GMatrix(n), hVector(n), n), n)

\* the tables d with the row of sample i of column c taken from a run of
\* the solver that did not converge
WithUnconverged(d, c, i) ==
    {[d EXCEPT ![c].rows[i] = row] : row \in LastIterateRows(Len(d[c].columns))}

AllOptimal(d) == [c \in DOMAIN d |-> [i \in DOMAIN d[c].rows |-> StatusOptimal]]

\* what one call of self.capybara(query) may do: the tables it returns, and
\* the status of each solvers.qp call, which lines 291-292 do not read.
\* Every call converges, or one of them does not.
capybaraRuns(a, q) ==
    UNION {{[tables |-> d, status |-> AllOptimal(d)]}
           \cup UNION {{[tables |-> e,
                         status |-> [AllOptimal(d) EXCEPT ![c][i] = StatusUnknown]] :
                           e \in WithUnconverged(d, c, i)} :
                          c \in DOMAIN d, i \in 1..Len(q.columns)} :
              d \in capybara(a, q)}

----------------------------------------------------------------------------
(* The calls of the model, as records of the inputs of one call *)

\* The call reaches no quadratic program, or every one it reaches has its
\* minimiser on the grid
Solvable(a, q, withCapybara) ==
    \/ ~withCapybara
    \/ ValidationError(q, a) # ""
    \/ Representable(a, q)

\* Atlas.projection called directly, with its options
DirectCalls == {<<"direct", "none", f[1], f[2], f[3]>> : f \in BOOLEAN \X BOOLEAN \X BOOLEAN}

\* AtlasProjection.post: projection(name, df, includeCombinedCoords=False)
EndpointCalls ==
    {<<"endpoint", ds, FALSE, TRUE, TRUE>> :
        ds \in {"user", "stemformatics", "user-single"}}

CallInput(a, nm, q, c) ==
    [atlasFiles |-> "ok", atlas |-> a, caller |-> c[1], dataSource |-> c[2], name |-> nm,
     queryData |-> q, includeCombinedCoords |-> c[3], includeCapybara |-> c[4],
     includeRandomSamples |-> c[5]]

\* the calls among cs that the model can follow to their end on (a, q)
CallsOn(a, nms, q, cs) ==
    UNION {{CallInput(a, nm, q, c) : nm \in nms, c \in {c \in cs : ok \/ ~c[4]}} :
              ok \in {Solvable(a, q, \E c \in cs : c[4])}}

\* Validation: every row index, one sample; from the endpoint, and directly
\* without capybara.
ValidationInputs ==
    UNION {CallsOn(a, {"test"}, MakeQuery(ix, 1, PlainColumns, "distinct"),
                   EndpointCalls \cup {<<"direct", "none", TRUE, FALSE, TRUE>>}) :
              a \in Atlases, ix \in AllIndexes}

\* Sample columns: up to MaxCols samples, under every list of sample ids.
ColumnInputs ==
    UNION {CallsOn(AtlasDc, {"test"}, MakeQuery(<<1, 2>>, n, names, kind),
                   {c \in DirectCalls : ~c[3] /\ ~c[4]}) :
              n \in 1..MaxCols, names \in ColumnLists, kind \in {"distinct", "tied"}}

\* Values, names and options: up to two samples of every kind, under every
\* choice of options but capybara together with random samples.
ValueInputs ==
    UNION {CallsOn(a, QueryNames, MakeQuery(ix, n, PlainColumns, kind),
                   {c \in DirectCalls : ~(c[4] /\ c[5])}) :
              a \in Atlases, ix \in GoodIndexes, n \in 1..2, kind \in Kinds}

\* Atlas files: calls of the endpoint on an atlas directory that is missing
\* or holds files that cannot be parsed
BrokenAtlasInputs ==
    {[CallInput(a, "test", MakeQuery(ix, 1, PlainColumns, "distinct"), c)
          EXCEPT !.atlasFiles = f] :
        a \in Atlases, ix \in {<<>>, <<1, 2>>},
        c \in {c \in EndpointCalls : c[2] # "user-single"},
        f \in {"missing", "malformed"}}

Inputs == ValidationInputs \cup ColumnInputs \cup ValueInputs \cup BrokenAtlasInputs

----------------------------------------------------------------------------
(* AtlasProjection.post, src/resources/atlases.py:76-219 *)

ErrPostZeroRows ==
    "The expression matrix came back as zero length. Check its format."

NoResponse == [kind |-> "none"]

\* lines 93-95
ErrPostSingleZeroRows ==
    "The data matrix came back as zero length. Check its format."

\* line 199, DataFrame.to_dict(orient="records"): one record per row, in
\* the order of the rows; the row index is not part of it
ToDictRecords(coords) ==
    [orient |-> "records", ncols |-> coords.ncols, records |-> coords.rows]

\* a faulty variant: the tables are written as records, without their index
M_ToDictSplitAsRecords(index, columns, rows) ==
    [orient |-> "records", columns |-> columns, data |-> rows]

\* lines 204, 207, DataFrame.to_dict(orient="split"): the index, the columns
\* and the rows of data
ToDictSplit(index, columns, rows) ==
    [orient |-> "split", index |-> index, columns |-> columns, data |-> rows]

\* lines 199-207: the result as post returns it.  Only the samples table
\* goes through fillna (line 200); coords, combinedCoords and the capybara
\* tables are written with the values projection gave them.
Serialised(res) ==
    [name           |-> res.name,
     error          |-> res.error,
     coords         |-> ToDictRecords(res.coords),
     combinedCoords |-> ToDictSplit(res.combinedCoords.index,
                                    res.combinedCoords.ncols,
                                    res.combinedCoords.rows),
     capybara       |-> IF res.hasCapybara
                        THEN [keys   |-> res.capybara.keys,
                              tables |-> [c \in DOMAIN res.capybara.tables |->
                                            ToDictSplit(res.capybara.tables[c].index,
                                                        res.capybara.tables[c].columns,
                                                        res.capybara.tables[c].rows)]]
                        ELSE <<>>]

\* src/resources/errors.py:15-16, 41-44: DatasetProjectionFailedError
FailedResponse ==
    [kind |-> "failed", error |-> "Projection of dataset failed. Check file formats."]

\* lines 140, 146: a bare return, the response is None
ReturnedNone == [kind |-> "None"]

----------------------------------------------------------------------------
(* The state machine *)

\* the locals of heatmapData before line 304
NoLists == [geneIds |-> <<>>, filtered |-> {}, unfiltered |-> {}, notFound |-> {}]

\* no heatmapData call is made
NoHeatmap ==
    /\ geneIds = <<>>
    /\ groupby = "None"
    /\ coloursFile = TRUE
    /\ hmPc = "none"
    /\ hmLists = NoLists
    /\ hmResult = NoResponse

\* no request is served
NoService ==
    /\ atlasFilePathEnv = <<>>
    /\ cwd = <<>>
    /\ currentLink = ""
    /\ requests = 0
    /\ svcPc = "none"
    /\ atlasObject = <<>>
    /\ versionsRead = <<>>
    /\ logFiles = <<>>
    /\ listedDirs = <<>>

\* no projection call is made
NoProjection ==
    /\ atlasFiles = "ok"
    /\ caller = "direct"
    /\ dataSource = "none"
    /\ name = "test"
    /\ queryData = EmptyFrame
    /\ includeCombinedCoords = FALSE
    /\ includeCapybara = FALSE
    /\ includeRandomSamples = FALSE
    /\ pc = "none"
    /\ result = InitialResult(name)
    /\ commonGenes = {}
    /\ aligned = EmptyFrame
    /\ dfQuery = EmptyFrame
    /\ rndCols = <<>>
    /\ rndI = 0
    /\ calls = <<>>
    /\ solverStatus = <<>>
    /\ response = NoResponse
    /\ solversOptions = {}
    /\ randomState = 0
    /\ callPc = <<>>
    /\ callArgs = <<>>
    /\ callStart = <<>>
    /\ callDraws = <<>>
    /\ accesses = {}

Init ==
    /\ \E in \in Inputs :
        /\ atlasFiles = in.atlasFiles
        /\ atlas = in.atlas
        /\ caller = in.caller
        /\ dataSource = in.dataSource
        /\ name = in.name
        /\ queryData = in.queryData
        /\ includeCombinedCoords = in.includeCombinedCoords
        /\ includeCapybara = in.includeCapybara
        /\ includeRandomSamples = in.includeRandomSamples
    /\ pc = IF caller = "endpoint" THEN "post" ELSE "projection"
    /\ result = InitialResult(name)
    /\ commonGenes = {}
    /\ aligned = EmptyFrame
    /\ dfQuery = EmptyFrame
    /\ rndCols = <<>>
    /\ rndI = 0
    /\ calls = <<>>
    /\ solverStatus = <<>>
    /\ response = NoResponse
    /\ solversOptions = {}
    /\ randomState = 0
    /\ callPc = <<>>
    /\ callArgs = <<>>
    /\ callStart = <<>>
    /\ callDraws = <<>>
    /\ accesses = {}
    /\ NoHeatmap
    /\ NoService

\* post, lines 83-146: the 'user-single' branch.  A matrix without rows is
\* answered with an error object; otherwise the upload is stored when
\* ids.csv can be read, and both the stored and the IOError path end in a
\* bare return.
PostSingle ==
    /\ pc = "post"
    /\ dataSource = "user-single"
    /\ IF FrameLen(queryData) = 0
       THEN /\ response' = [kind |-> "error", error |-> ErrPostSingleZeroRows]
            /\ UNCHANGED calls
       ELSE /\ response' = ReturnedNone
            /\ \E idsReadable \in BOOLEAN :
                  calls' = IF idsReadable
                           THEN <<"os.makedirs", "df.to_csv", "writer.writerow">>
                           ELSE <<>>
    /\ pc' = "answered"
    /\ UNCHANGED <<inputs, process, concurrent, heatmap, service, result, commonGenes, aligned, dfQuery, rndCols, rndI, solverStatus>>

\* post, lines 148-191 and 218-219: the user's matrix is checked for zero
\* rows, then Atlas(atlasType) is made (line 189), whose os.readlink raises
\* when the atlas directory is missing; the bare except of line 218 turns
\* every exception into DatasetProjectionFailedError
PostBegin ==
    /\ pc = "post"
    /\ dataSource # "user-single"
    /\ IF dataSource = "user" /\ FrameLen(queryData) = 0
       THEN /\ response' = [kind |-> "error", error |-> ErrPostZeroRows]
            /\ pc' = "rejected"
       ELSE IF atlasFiles = "missing"
       THEN /\ response' = FailedResponse
            /\ pc' = "failed"
       ELSE /\ pc' = "projection"
            /\ UNCHANGED response
    /\ UNCHANGED <<inputs, process, concurrent, heatmap, service, result, commonGenes, aligned, dfQuery, rndCols, rndI, calls, solverStatus>>

\* projection, lines 169-191: the validation and the early return.  The
\* reads of lines 176-177 raise when the atlas files cannot be read.
Validate ==
    /\ pc = "projection"
    /\ IF atlasFiles = "ok"
       THEN /\ commonGenes' = IndexIntersection(queryData.index, expressionMatrix(atlas).index)
            /\ result' = [InitialResult(name) EXCEPT !.error = ValidationError(queryData, atlas)]
            /\ pc' = IF result'.error # "" THEN "returned" ELSE "align"
       ELSE /\ pc' = "raised"
            /\ UNCHANGED <<result, commonGenes>>
    /\ UNCHANGED <<inputs, process, concurrent, heatmap, service, aligned, dfQuery, rndCols, rndI, calls, response, solverStatus>>

\* after line 196, 201 or 209: the next block of projection that runs
\* a faulty variant: the random controls are drawn whatever the flag says
M_AfterAlignAlwaysSample == "sample"

AfterAlign == IF includeRandomSamples THEN "sample" ELSE "pca"

AfterEmbed ==
    IF includeCombinedCoords THEN "combine"
    ELSE IF includeCapybara THEN "capybara" ELSE "return"

AfterCombine == IF includeCapybara THEN "capybara" ELSE "return"

\* line 196
Align ==
    /\ pc = "align"
    /\ aligned' = FillNa(Reindex(queryData, expressionMatrix(atlas).index), 0)
    /\ dfQuery' = rankTransform(aligned')
    /\ calls' = Append(calls, "rankTransform")
    /\ pc' = AfterAlign
    /\ UNCHANGED <<inputs, process, concurrent, heatmap, service, result, commonGenes, rndCols, rndI, response, solverStatus>>

\* lines 199-200: random.sample(dfQuery.columns.tolist(), n)
RandomSample ==
    /\ pc = "sample"
    /\ \E arr \in Arrangements(Len(dfQuery.columns), RandomCount(Len(dfQuery.columns))) :
          rndCols' = [i \in DOMAIN arr |-> dfQuery.columns[arr[i]]]
    /\ rndI' = 0
    /\ calls' = Append(calls, "random.sample")
    /\ randomState' = randomState + 1
    /\ UNCHANGED solversOptions
    /\ pc' = "shuffle"
    /\ UNCHANGED <<inputs, concurrent, heatmap, service, result, commonGenes, aligned, dfQuery, response, solverStatus>>

\* line 201, one iteration of the loop
RandomColumn ==
    /\ pc = "shuffle"
    /\ rndCols # <<>>
    /\ \E p \in Perms(FrameLen(dfQuery)) :
          dfQuery' = SetColumn(dfQuery, RandomName(rndI),
                               Shuffled(Column(dfQuery, Head(rndCols)), p))
    /\ rndCols' = Tail(rndCols)
    /\ rndI' = rndI + 1
    /\ randomState' = randomState + 1
    /\ UNCHANGED solversOptions
    /\ pc' = IF rndCols' = <<>> THEN "pca" ELSE "shuffle"
    /\ UNCHANGED <<inputs, concurrent, heatmap, service, result, commonGenes, aligned, calls, response, solverStatus>>

\* lines 204-209
Embed ==
    /\ pc = "pca"
    /\ result' = [result EXCEPT !.coords = PcaCoords(dfQuery)]
    /\ calls' = calls \o <<"PCA.fit_transform", "PCA.transform">>
    /\ pc' = AfterEmbed
    /\ UNCHANGED <<inputs, process, concurrent, heatmap, service, commonGenes, aligned, dfQuery, rndCols, rndI, response, solverStatus>>

\* lines 211-216.  projectedCoords is result['coords'] itself, not a copy:
\* the assignment to projectedCoords.index renames the rows of both.
Combine ==
    /\ pc = "combine"
    /\ LET projectedCoords == PrefixIndex(name, result.coords)
       IN  result' = [result EXCEPT
                        !.coords = projectedCoords,
                        !.combinedCoords =
                            ConcatCoords(PcaCoords(expressionMatrix(atlas)), projectedCoords)]
    /\ pc' = AfterCombine
    /\ UNCHANGED <<inputs, process, concurrent, heatmap, service, commonGenes, aligned, dfQuery, rndCols, rndI, calls, response, solverStatus>>

\* line 219: cutoff = 0.01 = 1 / CutoffInverse
CutoffInverse == 100

\* line 229, the right-hand side: the columns of a score table whose
\* maximum is greater than the cutoff
ColumnsAboveCutoff(table) ==
    {k \in DOMAIN table.columns :
        \E i \in DOMAIN table.rows : table.rows[i][k] * CutoffInverse > ScoreUnit}

\* line 251: solvers.options[key] = value, on a dictionary held as the set
\* of its items
SetOption(options, key, value) ==
    {item \in options : item[1] # key} \cup {<<key, value>>}

\* lines 218-230.  The loop of lines 228-229 binds the table cut to
\* ColumnsAboveCutoff to its own variable df and leaves capy as it is:
\* result['capybara'] is what self.capybara returned.  solvers.qp may also
\* raise (ValueError, ArithmeticError); nothing in capybara or projection
\* catches it; line 251 has run by then.
Capybara ==
    /\ pc = "capybara"
    /\ solversOptions' = SetOption(solversOptions, "show_progress", FALSE)
    /\ UNCHANGED randomState
    /\ \/ /\ \E run \in capybaraRuns(atlas, queryData) :
                /\ result' = [result EXCEPT
                                !.hasCapybara = TRUE,
                                !.capybara = [keys   |-> sampleMatrix(atlas).columns,
                                              tables |-> run.tables]]
                /\ solverStatus' = run.status
          /\ calls' = Append(calls, "capybara")
          /\ pc' = "return"
       \/ /\ pc' = "raised"
          /\ UNCHANGED <<result, solverStatus, calls>>
    /\ UNCHANGED <<inputs, concurrent, heatmap, service, commonGenes, aligned, dfQuery, rndCols, rndI, response>>

\* line 232
Return ==
    /\ pc = "return"
    /\ pc' = "returned"
    /\ UNCHANGED <<inputs, process, concurrent, heatmap, service, result, commonGenes, aligned, dfQuery, rndCols, rndI, calls, response, solverStatus>>

\* post, lines 194-219 of src/resources/atlases.py
PostEnd ==
    /\ caller = "endpoint"
    /\ \/ /\ pc = "returned"
          /\ response' = IF result.error # ""
                         THEN [kind |-> "error", error |-> result.error]
                         ELSE [kind |-> "success", result |-> Serialised(result)]
          /\ pc' = "done"
       \/ /\ pc = "raised"
          /\ response' = FailedResponse
          /\ pc' = "failed"
    /\ UNCHANGED <<inputs, process, concurrent, heatmap, service, result, commonGenes, aligned, dfQuery, rndCols, rndI, calls, solverStatus>>

Next ==
    \/ PostSingle
    \/ PostBegin
    \/ Validate
    \/ Align
    \/ RandomSample
    \/ RandomColumn
    \/ Embed
    \/ Combine
    \/ Capybara
    \/ Return
    \/ PostEnd

Spec == Init /\ [][Next]_vars

----------------------------------------------------------------------------
(* Properties *)

\* projection has run its validation (lines 169-191)
Validated == pc \notin {"post", "rejected", "answered", "projection", "raised", "failed"}

\* projection has returned
Returned == pc \in {"returned", "done"}

\* projection has returned without a validation error
Succeeded == Returned /\ result.error = ""

\* projection is past line 196
AlignedDone ==
    pc \in {"sample", "shuffle", "pca", "combine", "capybara", "return"} \/ Succeeded

\* projection is past the loop of lines 198-201
ControlsDone == pc \in {"pca", "combine", "capybara", "return"} \/ Succeeded

\* projection is past line 209
EmbedDone == pc \in {"combine", "capybara", "return"} \/ Succeeded

\* projection is past line 216
CombineDone == pc \in {"capybara", "return"} \/ Succeeded

AtlasIndex == expressionMatrix(atlas).index

NumCommon == Cardinality(Range(queryData.index) \cap Range(AtlasIndex))

NumInclusion == Cardinality(InclusionGenes(atlas))

\* The message of the first failing check in the order
\* empty -> duplicate index -> no common genes -> low overlap
FirstFailingCheck ==
    IF FrameLen(queryData) = 0 THEN ErrZeroRows
    ELSE IF HasDuplicateIndex(queryData) THEN ErrDuplicateIndex
    ELSE IF NumCommon = 0 THEN ErrNoCommonGenes
    ELSE IF 2 * NumCommon < NumInclusion THEN ErrLowOverlap(NumCommon)
    ELSE ""

\* C1: the validation checks apply in the order empty -> duplicate index ->
\* no common genes -> low overlap and the first failing check determines
\* the error; a non-empty query with a duplicate index gets the
\* duplicate-index message whatever its gene overlap.
C1_FirstFailingCheckWins ==
    Returned =>
        /\ result.error = FirstFailingCheck
        /\ (FrameLen(queryData) > 0 /\ HasDuplicateIndex(queryData)
                => result.error = ErrDuplicateIndex)

\* C2: a query with zero rows gets the zero-rows message.
C2_ZeroRowsMessage ==
    Returned /\ FrameLen(queryData) = 0 => result.error = ErrZeroRows

\* C3: a query that shares no gene with the atlas filtered index gets a
\* non-empty error and nothing is computed after the check: no rank
\* transform, no random sample, no PCA, no capybara; coords stays empty.
C3_NoCommonGenesStops ==
    Validated /\ NumCommon = 0 =>
        /\ Returned
        /\ result.error # ""
        /\ calls = <<>>
        /\ result.coords = EmptyCoords
        /\ dfQuery = EmptyFrame

C3_Witness ==
    /\ pc = "returned"
    /\ FrameLen(queryData) > 0
    /\ ~HasDuplicateIndex(queryData)
    /\ NumCommon = 0
    /\ result.error = ErrNoCommonGenes

\* C4: for a non-empty query without duplicates and with c > 0 common
\* genes, the low-overlap error is reported iff c/g < 0.5 strictly; its
\* message holds the count c; at c/g = 0.5 there is no error and the
\* projection proceeds.
C4_LowOverlapCutoff ==
    Validated /\ FrameLen(queryData) > 0 /\ ~HasDuplicateIndex(queryData) /\ NumCommon > 0 =>
        IF 2 * NumCommon < NumInclusion
        THEN /\ Returned
             /\ result.error =
                    "Less than 50% of genes in query data are common with atlas ("
                        \o ToString(NumCommon)
                        \o " common). This may lead to an unreliable result."
        ELSE /\ result.error = ""
             /\ Returned => result.coords # EmptyCoords

C4_Witness ==
    /\ pc = "returned"
    /\ FrameLen(queryData) > 0
    /\ ~HasDuplicateIndex(queryData)
    /\ NumCommon > 0
    /\ 2 * NumCommon = NumInclusion
    /\ result.error = ""
    /\ result.coords # EmptyCoords

\* the query fails one of the four validation checks
FailsValidation ==
    \/ FrameLen(queryData) = 0
    \/ HasDuplicateIndex(queryData)
    \/ NumCommon = 0
    \/ 2 * NumCommon < NumInclusion

\* C5: a query that fails a validation check makes projection return a
\* result with a non-empty error, empty coords, empty combinedCoords and
\* no capybara entry, and the endpoint return the object {"error": message}.
C5_ValidationErrorIsReturned ==
    Validated /\ FailsValidation =>
        /\ Returned
        /\ result.error # ""
        /\ result.coords = EmptyCoords
        /\ result.combinedCoords = EmptyCoords
        /\ ~result.hasCapybara
        /\ result.name = name
        /\ pc = "done" => response = [kind |-> "error", error |-> result.error]

C5_Witness ==
    /\ pc = "done"
    /\ HasDuplicateIndex(queryData)
    /\ 2 * NumCommon >= NumInclusion
    /\ response = [kind |-> "error", error |-> ErrDuplicateIndex]

\* the cell of gene g in the j-th sample of the query (g is in its index)
QueryCell(g, j) == queryData.data[j][IndexOf(queryData.index, g)]

\* C6 as claimed: the aligned query has the atlas filtered index in the
\* atlas order; atlas-only genes are 0 in every sample, query-only genes
\* are dropped, shared genes keep the query's own values.
C6_AlignedKeepsQueryValues ==
    AlignedDone =>
        /\ aligned.index = AtlasIndex
        /\ aligned.columns = queryData.columns
        /\ \A j \in DOMAIN aligned.columns : \A p \in DOMAIN AtlasIndex :
              aligned.data[j][p] =
                  IF AtlasIndex[p] \in Range(queryData.index)
                  THEN QueryCell(AtlasIndex[p], j)
                  ELSE 0

\* C6 as amended: the aligned query has the atlas filtered index in the
\* atlas order; atlas-only genes are 0 in every sample, query-only genes
\* are dropped, shared genes keep the query's own values except that a
\* missing value of the query becomes 0.
C6_AlignedToAtlasIndex ==
    AlignedDone =>
        /\ aligned.index = AtlasIndex
        /\ aligned.columns = queryData.columns
        /\ \A j \in DOMAIN aligned.columns :
              /\ Len(aligned.data[j]) = Len(AtlasIndex)
              /\ \A p \in DOMAIN AtlasIndex :
                    aligned.data[j][p] =
                        IF AtlasIndex[p] \notin Range(queryData.index) THEN 0
                        ELSE IF QueryCell(AtlasIndex[p], j) = NA THEN 0
                        ELSE QueryCell(AtlasIndex[p], j)

\* an aligned query with an atlas-only gene, a query-only gene, a shared
\* gene with a value other than 0 and a shared gene with a missing value,
\* whose index is not in the atlas order
C6_Witness ==
    /\ AlignedDone
    /\ \E g \in Range(AtlasIndex) : g \notin Range(queryData.index)
    /\ \E g \in Range(queryData.index) : g \notin Range(AtlasIndex)
    /\ \E p \in DOMAIN AtlasIndex :
          /\ AtlasIndex[p] \in Range(queryData.index)
          /\ QueryCell(AtlasIndex[p], 1) = NA
          /\ aligned.data[1][p] = 0
    /\ \E p \in DOMAIN AtlasIndex :
          /\ AtlasIndex[p] \in Range(queryData.index)
          /\ aligned.data[1][p] > 0
    /\ SelectSeq(queryData.index, LAMBDA g : g \in Range(AtlasIndex))
          # SelectSeq(AtlasIndex, LAMBDA g : g \in Range(queryData.index))

\* the number of sample columns of the query
NumSamples == Len(queryData.columns)

\* C7: a successful projection of a query with n samples returns coords
\* with 3 coordinate columns and n + min(3, n) rows when includeRandomSamples
\* is set, n rows when it is not, whatever the names of the query columns.
C7_CoordsShape ==
    EmbedDone =>
        /\ result.coords.ncols = 3
        /\ Len(result.coords.rows) = Len(result.coords.index)
        /\ Len(result.coords.index) =
              IF includeRandomSamples THEN NumSamples + Min(3, NumSamples)
              ELSE NumSamples

\* the aligned, rank-normalised query before any random control is added
RealColumns == rankTransform(aligned)

\* the labels of the random controls: one per iteration of line 200
ControlNames == {RandomName(i) : i \in 0..(RandomCount(NumSamples) - 1)}

\* C8 as claimed: each random control column holds the same multiset of
\* values as some real column of the aligned, rank-normalised query, in a
\* different order than that column.
C8_ControlsAreReorderedColumns ==
    ControlsDone /\ includeRandomSamples =>
        \A c \in ControlNames :
            /\ c \in Range(dfQuery.columns)
            /\ \E j \in DOMAIN RealColumns.data :
                  /\ Multiset(Column(dfQuery, c)) = Multiset(RealColumns.data[j])
                  /\ Column(dfQuery, c) # RealColumns.data[j]

\* C8 as amended: each random control column holds the same multiset of
\* values as some real column of the aligned, rank-normalised query; its
\* order may or may not differ from that column's.
C8_ControlsArePermutedColumns ==
    ControlsDone /\ includeRandomSamples =>
        \A c \in ControlNames :
            /\ c \in Range(dfQuery.columns)
            /\ Len(Column(dfQuery, c)) = Len(AtlasIndex)
            /\ \E j \in DOMAIN RealColumns.data :
                  Multiset(Column(dfQuery, c)) = Multiset(RealColumns.data[j])

\* a control whose order differs from every real column, and one that
\* repeats a real column as it is
C8_Witness ==
    /\ ControlsDone
    /\ includeRandomSamples
    /\ NumSamples >= 2
    /\ \E c \in ControlNames : Column(dfQuery, c) \notin Range(RealColumns.data)
    /\ \E c \in ControlNames : Column(dfQuery, c) \in Range(RealColumns.data)

\* C9: with includeCombinedCoords, no row identifier of a projected query
\* sample in combinedCoords equals a row identifier of an atlas sample.
C9_NoIdCollision ==
    CombineDone /\ includeCombinedCoords =>
        LET ids    == result.combinedCoords.index
            nAtlas == Len(expressionMatrix(atlas).columns)
        IN  \A i \in (nAtlas + 1)..Len(ids) :
                ids[i] \notin {ids[k] : k \in 1..nAtlas}

\* every solvers.qp call of the capybara scoring converged
AllConverged ==
    \A c \in DOMAIN solverStatus :
        \A i \in DOMAIN solverStatus[c] : solverStatus[c][i] = StatusOptimal

\* C10: every score row capybara reports from a solution of the solver
\* has every entry >= -1e-6 and sums to 1 within 1e-4.
C10_ScoreRowsSumToOne ==
    result.hasCapybara /\ AllConverged =>
        \A c \in DOMAIN result.capybara.tables :
            \A i \in DOMAIN result.capybara.tables[c].rows :
                LET row   == result.capybara.tables[c].rows[i]
                    total == SumSeq(row)
                IN  /\ \A k \in DOMAIN row : row[k] >= 0 - (ScoreUnit \div 1000000)
                    /\ total - ScoreUnit < ScoreUnit \div 10000
                    /\ ScoreUnit - total < ScoreUnit \div 10000

\* C11: with includeCapybara, no score table of result['capybara'] has a
\* category column whose maximum over the query samples is below the
\* cutoff 0.01.
C11_LowColumnsDropped ==
    result.hasCapybara =>
        \A c \in DOMAIN result.capybara.tables :
            \A k \in DOMAIN result.capybara.tables[c].columns :
                \E i \in DOMAIN result.capybara.tables[c].rows :
                    result.capybara.tables[c].rows[i][k] * CutoffInverse >= ScoreUnit

\* the row of a sample whose quadratic program failed, flagged: every score
\* of the row is missing
FlaggedRow(n) == [k \in 1..n |-> NA]

\* C12: when the solver does not converge for a query sample, the row of
\* that sample in the score table is flagged; it is not an ordinary score
\* row.
C12_UnconvergedRowFlagged ==
    result.hasCapybara =>
        \A c \in DOMAIN solverStatus :
            \A i \in DOMAIN solverStatus[c] :
                solverStatus[c][i] = StatusUnknown =>
                    result.capybara.tables[c].rows[i] =
                        FlaggedRow(Len(result.capybara.tables[c].columns))

\* post has returned or raised
PostEnded == caller = "endpoint" /\ pc \in {"rejected", "answered", "done", "failed"}

\* C13: every call of AtlasProjection.post, 'user-single' included, ends in
\* a success result, a validation error object or the projection-failed
\* error, never in an empty response.
C13_PostAnswersOneOfThree ==
    PostEnded => response.kind \in {"success", "error", "failed"}

\* C14: a request on missing or malformed atlas files fails with an outcome
\* of its own, not with the generic projection-failed outcome of numerical
\* and solver errors.
C14_AtlasUnavailableIsDistinct ==
    PostEnded /\ atlasFiles # "ok" /\ response.kind # "error" =>
        /\ response.kind \notin {"success", "None"}
        /\ response # FailedResponse

\* post has returned a success response
PostSucceeded == pc = "done" /\ response.kind = "success"

\* a table of rows holds a missing value
HasMissing(rows) == \E i \in DOMAIN rows : NA \in Range(rows[i])

\* C15 as claimed: in a success response the coordinate table and every
\* capybara score table are row-oriented records and hold no NaN.
C15_TablesAreRecords ==
    PostSucceeded =>
        /\ response.result.coords.orient = "records"
        /\ ~HasMissing(response.result.coords.records)
        /\ \A c \in DOMAIN response.result.capybara.tables :
              /\ response.result.capybara.tables[c].orient = "records"
              /\ ~HasMissing(response.result.capybara.tables[c].data)

\* C15 as amended: in a success response the coordinate table is
\* row-oriented records, one per row of coords; every capybara score table
\* is in split form, with the query's sample ids as index, the categories
\* as columns and one row of data per sample; none holds a NaN.
C15_RecordsAndSplitTables ==
    PostSucceeded =>
        /\ response.result.coords.orient = "records"
        /\ Len(response.result.coords.records) = Len(result.coords.index)
        /\ ~HasMissing(response.result.coords.records)
        /\ DOMAIN response.result.capybara.tables = DOMAIN sampleMatrix(atlas).columns
        /\ \A c \in DOMAIN response.result.capybara.tables :
              LET t == response.result.capybara.tables[c]
              IN  /\ t.orient = "split"
                  /\ t.index = queryData.columns
                  /\ t.columns = Unique(sampleMatrix(atlas).data[c])
                  /\ Len(t.data) = Len(t.index)
                  /\ \A i \in DOMAIN t.data : Len(t.data[i]) = Len(t.columns)
                  /\ ~HasMissing(t.data)

\* a success response with a score table of two categories and with the
\* random controls among the records of coords
C15_Witness ==
    /\ PostSucceeded
    /\ Len(queryData.columns) >= 1
    /\ \E c \in DOMAIN response.result.capybara.tables :
          Len(response.result.capybara.tables[c].columns) = 2
    /\ Len(response.result.coords.records) > Len(queryData.columns)

----------------------------------------------------------------------------
(* rankTransform on its own: one behaviour is one call rankTransform(df) *)

MaxRankRows == 4

\* the values of the cells: a missing one, and those of test_rankTransform
RankValues == {NA, 2, 5, 10}

\* the matrices given to rankTransform: one column of up to MaxRankRows
\* rows, or two columns of up to two rows
RankInputs ==
    {[index |-> [i \in 1..n |-> i], columns |-> <<"a">>, data |-> <<col>>] :
        n \in 1..MaxRankRows, col \in SeqsUpTo(RankValues, MaxRankRows)}
    \cup {[index |-> [i \in 1..n |-> i], columns |-> <<"a", "b">>, data |-> <<c1, c2>>] :
            n \in 1..2, c1 \in SeqsUpTo(RankValues, 2), c2 \in SeqsUpTo(RankValues, 2)}

WellFormed(df) == \A j \in DOMAIN df.data : Len(df.data[j]) = Len(df.index)

InitRank ==
    /\ atlasFiles = "ok"
    /\ atlas = AtlasDc
    /\ caller = "direct"
    /\ dataSource = "none"
    /\ name = "test"
    /\ queryData \in {df \in RankInputs : WellFormed(df)}
    /\ includeCombinedCoords = FALSE
    /\ includeCapybara = FALSE
    /\ includeRandomSamples = FALSE
    /\ pc = "rank"
    /\ result = InitialResult(name)
    /\ commonGenes = {}
    /\ aligned = EmptyFrame
    /\ dfQuery = EmptyFrame
    /\ rndCols = <<>>
    /\ rndI = 0
    /\ calls = <<>>
    /\ solverStatus = <<>>
    /\ response = NoResponse
    /\ solversOptions = {}
    /\ randomState = 0
    /\ callPc = <<>>
    /\ callArgs = <<>>
    /\ callStart = <<>>
    /\ callDraws = <<>>
    /\ accesses = {}
    /\ NoHeatmap
    /\ NoService

\* rankTransform(df), line 40: dfQuery holds what it returns
RankStep ==
    /\ pc = "rank"
    /\ dfQuery' = rankTransform(queryData)
    /\ calls' = Append(calls, "rankTransform")
    /\ pc' = "ranked"
    /\ UNCHANGED <<inputs, process, concurrent, heatmap, service, result, commonGenes, aligned, rndCols, rndI, solverStatus, response>>

NextRank == RankStep

SpecRank == InitRank /\ [][NextRank]_vars

\* the orders of the rows of a column in which no value comes before a
\* larger one, missing values last
DescendingOrders(col) ==
    {o \in Perms(Len(col)) :
        \A p, q \in 1..Len(col) :
            p < q => /\ (col[o[p]] = NA => col[o[q]] = NA)
                     /\ (col[o[q]] # NA => col[o[p]] >= col[o[q]])}

\* the sum of the places the values equal to v take in the order o
PlacesOf(col, o, v) ==
    SumOver([p \in 1..Len(col) |-> p], {p \in 1..Len(col) : col[o[p]] = v})

\* C16: rankTransform returns a matrix of the shape of its input in which
\* every value v of a column of N rows is replaced by (N - r + 1)/N, r the
\* average of the places the values equal to v take when the column is put
\* in descending order.  (Outputs are held times 2N: with t values equal
\* to v, t * out = t * (2N + 2) - 2 * the sum of the places.)
C16_RankTransformFormula ==
    pc = "ranked" =>
        /\ dfQuery.index = queryData.index
        /\ dfQuery.columns = queryData.columns
        /\ DOMAIN dfQuery.data = DOMAIN queryData.data
        /\ \A j \in DOMAIN queryData.data :
              LET col == queryData.data[j]
                  out == dfQuery.data[j]
                  N   == Len(col)
              IN  /\ Len(out) = N
                  /\ \A o \in DescendingOrders(col) :
                        \A i \in 1..N :
                            col[i] # NA =>
                                LET t == Cardinality({k \in 1..N : col[k] = col[i]})
                                IN  t * out[i] = t * (2 * N + 2) - 2 * PlacesOf(col, o, col[i])

\* the call of test_rankTransform: the column [2, 2, 5, 10]
C16_Witness ==
    /\ pc = "ranked"
    /\ queryData.data = <<<<2, 2, 5, 10>>>>
    /\ dfQuery.data = <<<<3, 3, 6, 8>>>>

\* C17: in every column rankTransform keeps the order and the ties of the
\* values and its outputs are in (0, 1]: a < b gives out(a) < out(b), a = b
\* gives out(a) = out(b), and 0 < out <= 1 (outputs are held times 2N).
C17_RankTransformKeepsOrder ==
    pc = "ranked" =>
        \A j \in DOMAIN queryData.data :
            LET col == queryData.data[j]
                out == dfQuery.data[j]
            IN  \A i, k \in DOMAIN col :
                    /\ out[i] > 0
                    /\ out[i] <= 2 * Len(col)
                    /\ (col[i] # NA /\ col[k] # NA /\ col[i] < col[k] => out[i] < out[k])
                    /\ (col[i] # NA /\ col[i] = col[k] => out[i] = out[k])

\* [2, 2, 5, 10]: the two 2s get the same output, 10 a larger one than 5
C17_Witness ==
    /\ pc = "ranked"
    /\ queryData.data = <<<<2, 2, 5, 10>>>>
    /\ dfQuery.data[1][1] = dfQuery.data[1][2]
    /\ dfQuery.data[1][4] > dfQuery.data[1][3]
    /\ dfQuery.data[1][3] > dfQuery.data[1][2]

\* the rows of df in the order p
PermuteRows(df, p) ==
    [df EXCEPT !.index = [i \in DOMAIN df.index |-> df.index[p[i]]],
               !.data  = [j \in DOMAIN df.data |->
                            [i \in DOMAIN df.index |-> df.data[j][p[i]]]]]

\* C18: rankTransform commutes with every reordering p of the rows:
\* rankTransform(p(M)) = p(rankTransform(M)), tied columns included.
C18_RankTransformCommutes ==
    pc = "ranked" =>
        \A p \in Perms(FrameLen(queryData)) :
            rankTransform(PermuteRows(queryData, p)) = PermuteRows(dfQuery, p)

\* a matrix with a tied column, and a reordering that moves its rows
C18_Witness ==
    /\ pc = "ranked"
    /\ queryData.data = <<<<5, 2, 5, NA>>>>
    /\ \E p \in Perms(FrameLen(queryData)) :
          /\ PermuteRows(queryData, p) # queryData
          /\ rankTransform(PermuteRows(queryData, p)) = PermuteRows(dfQuery, p)

----------------------------------------------------------------------------
\* Reproducibility of the embedding

\* lines 196 and 204-209 with the loop of lines 198-201 skipped: the
\* coordinates as a function of the atlas and the query
ProjectionCoords(a, q) ==
    PcaCoords(rankTransform(FillNa(Reindex(q, expressionMatrix(a).index), 0)))

----------------------------------------------------------------------------
(* Concurrent calls.  A process serves two calls of Atlas.projection at    *)
(* once (one thread per request); each call is followed through the        *)
(* statements that touch state other calls can reach: the atlas files, the *)
(* fields of the Atlas object, cvxopt's solvers.options and the generator  *)
(* of the random module.  The query matrix belongs to the caller.          *)

Calls == {1, 2}

CallArgs ==
    [includeCapybara : BOOLEAN, includeRandomSamples : BOOLEAN, ncols : 1..MaxCols]

\* a place in the state of the process, owned by no call; the query matrix
\* of call c is the place <<"queryData", c>>
Shared(what) == <<what, 0>>

Access(c, op, loc) == [call |-> c, op |-> op, loc |-> loc]

InitPair ==
    /\ atlasFiles = "ok"
    /\ atlas = AtlasDc
    /\ caller = "direct"
    /\ dataSource = "none"
    /\ name = "test"
    /\ queryData = EmptyFrame
    /\ includeCombinedCoords = FALSE
    /\ includeCapybara = FALSE
    /\ includeRandomSamples = FALSE
    /\ pc = "concurrent"
    /\ result = InitialResult(name)
    /\ commonGenes = {}
    /\ aligned = EmptyFrame
    /\ dfQuery = EmptyFrame
    /\ rndCols = <<>>
    /\ rndI = 0
    /\ calls = <<>>
    /\ solverStatus = <<>>
    /\ response = NoResponse
    /\ solversOptions = {}
    /\ randomState = 0
    /\ callPc = [c \in Calls |-> "projection"]
    /\ callArgs \in [Calls -> CallArgs]
    /\ callStart = [c \in Calls |-> 0]
    /\ callDraws = [c \in Calls |-> <<>>]
    /\ accesses = {}
    /\ NoHeatmap
    /\ NoService

CallAfterControls(args) == IF args.includeCapybara THEN "options" ELSE "return"

\* lines 172-196: the atlas is read from its files through self.atlasFilePath,
\* the query is read and a new frame is made of it (reindex, fillna and
\* rank return copies)
CallBegin(c) ==
    /\ callPc[c] = "projection"
    /\ callStart' = [callStart EXCEPT ![c] = randomState]
    /\ accesses' = accesses \cup {Access(c, "read", Shared("atlas files")),
                                  Access(c, "read", Shared("Atlas fields")),
                                  Access(c, "read", <<"queryData", c>>)}
    /\ callPc' = [callPc EXCEPT ![c] =
                     IF callArgs[c].includeRandomSamples THEN "sample"
                     ELSE CallAfterControls(callArgs[c])]
    /\ UNCHANGED <<heatmap, service, inputs, pc, result, commonGenes, aligned, dfQuery, rndCols, rndI,
                   calls, solverStatus, response, process, callArgs, callDraws>>

\* lines 200-201, one of the 1 + n random.sample calls: the generator of
\* the module serves it and moves on
CallRandomSample(c) ==
    /\ callPc[c] = "sample"
    /\ callDraws' = [callDraws EXCEPT ![c] = Append(@, randomState)]
    /\ randomState' = randomState + 1
    /\ accesses' = accesses \cup {Access(c, "read", Shared("random")),
                                  Access(c, "write", Shared("random"))}
    /\ callPc' = [callPc EXCEPT ![c] =
                     IF Len(callDraws'[c]) = 1 + RandomCount(callArgs[c].ncols)
                     THEN CallAfterControls(callArgs[c]) ELSE "sample"]
    /\ UNCHANGED <<heatmap, service, inputs, pc, result, commonGenes, aligned, dfQuery, rndCols, rndI,
                   calls, solverStatus, response, solversOptions, callArgs, callStart>>

\* line 251
CallOptions(c) ==
    /\ callPc[c] = "options"
    /\ solversOptions' = SetOption(solversOptions, "show_progress", FALSE)
    /\ accesses' = accesses \cup {Access(c, "write", Shared("solvers.options"))}
    /\ callPc' = [callPc EXCEPT ![c] = "qp"]
    /\ UNCHANGED <<heatmap, service, inputs, pc, result, commonGenes, aligned, dfQuery, rndCols, rndI,
                   calls, solverStatus, response, randomState, callArgs, callStart,
                   callDraws>>

\* lines 257-292: the atlas is read again and solvers.qp runs under
\* solvers.options
CallQp(c) ==
    /\ callPc[c] = "qp"
    /\ accesses' = accesses \cup {Access(c, "read", Shared("atlas files")),
                                  Access(c, "read", Shared("Atlas fields")),
                                  Access(c, "read", Shared("solvers.options"))}
    /\ callPc' = [callPc EXCEPT ![c] = "return"]
    /\ UNCHANGED <<heatmap, service, inputs, pc, result, commonGenes, aligned, dfQuery, rndCols, rndI,
                   calls, solverStatus, response, process, callArgs, callStart, callDraws>>

\* line 232
CallReturn(c) ==
    /\ callPc[c] = "return"
    /\ callPc' = [callPc EXCEPT ![c] = "returned"]
    /\ UNCHANGED <<heatmap, service, inputs, pc, result, commonGenes, aligned, dfQuery, rndCols, rndI,
                   calls, solverStatus, response, process, callArgs, callStart, callDraws,
                   accesses>>

NextPair ==
    \/ \E c \in Calls : CallBegin(c)
    \/ \E c \in Calls : CallRandomSample(c)
    \/ \E c \in Calls : CallOptions(c)
    \/ \E c \in Calls : CallQp(c)
    \/ \E c \in Calls : CallReturn(c)

SpecPair == InitPair /\ [][NextPair]_vars

\* the draws a call is served when no other call runs beside it
DrawsAlone(c) == [i \in 1..Len(callDraws[c]) |-> callStart[c] + i - 1]

\* C20: concurrent calls are independent.  When every call has returned the
\* state of the process is what it was before them; no two calls touch the
\* same state unless both only read it; and every call is served what it
\* would be served when run alone.
C20_CallsIndependent ==
    /\ (\A c \in Calls : callPc[c] = "returned") =>
            solversOptions = {} /\ randomState = 0
    /\ \A a, b \in accesses :
            a.call # b.call /\ a.loc = b.loc => a.op = "read" /\ b.op = "read"
    /\ \A c \in Calls : callPc[c] = "returned" => callDraws[c] = DrawsAlone(c)

----------------------------------------------------------------------------
\* Missing values in rankTransform

\* C22: a missing value is ranked as the lowest value of its column: its
\* output is at most that of every value of the column that is not missing,
\* and the values that are not missing come in the order rankTransform gives
\* them in the column without the missing ones.
C22_MissingRankedLowest ==
    pc = "ranked" =>
        \A j \in DOMAIN queryData.data :
            LET col   == queryData.data[j]
                out   == dfQuery.data[j]
                alone == RankColumn(SelectSeq(col, LAMBDA v : v # NA))
                place == [i \in 1..Len(col) |->
                             Cardinality({k \in 1..i : col[k] # NA})]
            IN  \A i, k \in 1..Len(col) :
                    /\ (col[i] = NA /\ col[k] # NA => out[i] <= out[k])
                    /\ (col[i] # NA /\ col[k] # NA =>
                            /\ (out[i] < out[k] <=> alone[place[i]] < alone[place[k]])
                            /\ (out[i] = out[k] <=> alone[place[i]] = alone[place[k]]))

\* [5, missing, 2, 5]: the missing value gets the lowest output
C22_Witness ==
    /\ pc = "ranked"
    /\ queryData.data = <<<<5, NA, 2, 5>>>>
    /\ dfQuery.data[1][2] < dfQuery.data[1][3]
    /\ dfQuery.data[1][3] < dfQuery.data[1][1]
    /\ dfQuery.data[1][1] = dfQuery.data[1][4]

----------------------------------------------------------------------------
\* The score tables of capybara

\* C23: capybara returns one score table per column of the sample table of
\* the atlas, keyed by that column; a table has one row per sample of the
\* query and one column per value of the annotation; and the reference
\* profile of a value is the gene-wise mean over the atlas samples that
\* have the value, on the genes the atlas and the query share.  (Reference
\* holds the mean times CatScale(anno).)
C23_OneTablePerAnnotation ==
    result.hasCapybara =>
        LET sm == sampleMatrix(atlas)
            df == expressionMatrix(atlas)
            rf == ReferenceFrame(atlas, queryData)
        IN  /\ result.capybara.keys = sm.columns
            /\ DOMAIN result.capybara.tables = DOMAIN sm.columns
            /\ Range(rf.index) = Range(df.index) \cap Range(queryData.index)
            /\ Len(rf.index) = Cardinality(Range(rf.index))
            /\ \A c \in DOMAIN sm.columns :
                  LET table == result.capybara.tables[c]
                      anno  == sm.data[c]
                      R     == Reference(rf, anno)
                  IN  /\ table.index = queryData.columns
                      /\ DOMAIN table.rows = DOMAIN queryData.columns
                      /\ Range(table.columns) = Range(anno)
                      /\ Len(table.columns) = Cardinality(Range(anno))
                      /\ \A i \in DOMAIN table.rows :
                            DOMAIN table.rows[i] = DOMAIN table.columns
                      /\ DOMAIN R = DOMAIN table.columns
                      /\ \A i \in DOMAIN R :
                            LET having == {k \in DOMAIN anno : anno[k] = table.columns[i]}
                            IN  \A p \in DOMAIN rf.index :
                                    R[i][p] * Cardinality(having) =
                                        CatScale(anno) *
                                        SumOver([k \in DOMAIN anno |->
                                                    Column(df, sm.index[k])
                                                        [IndexOf(df.index, rf.index[p])]],
                                                having)

\* score tables of a query of two samples, on an annotation of two values or
\* more, one of the values held by two atlas samples or more
C23_Witness ==
    /\ result.hasCapybara
    /\ Succeeded
    /\ Len(queryData.columns) >= 2
    /\ \E c \in DOMAIN result.capybara.tables :
          /\ Len(result.capybara.tables[c].columns) >= 2
          /\ Len(result.capybara.tables[c].rows) >= 2
          /\ Len(result.capybara.tables[c].columns) < Len(sampleMatrix(atlas).index)

\* C24: the system capybara hands to solvers.qp, G x <= h without an
\* equality row, has the feasible set of the simplex x >= 0, sum(x) = 1:
\* for every annotation of the atlas, a weight vector (a grid point
\* X / GridDen) satisfies the one iff it satisfies the other.
C24_SameFeasibleSet ==
    result.hasCapybara =>
        \A c \in DOMAIN sampleMatrix(atlas).columns :
            LET n == Len(Unique(sampleMatrix(atlas).data[c]))
            IN  \A X \in [1..n -> (0 - GridDen)..(2 * GridDen)] :
                    Feasible(GMatrix(n), hVector(n), X)
                        <=> /\ \A k \in 1..n : X[k] >= 0
                            /\ SumSeq(X) = GridDen

----------------------------------------------------------------------------
\* The order of normalisation and embedding

\* the places of a computation in the log of the call
PlacesIn(log, what) == {i \in DOMAIN log : log[i] = what}

\* C25 as stated: both the atlas matrix and the aligned query pass through
\* rankTransform before the PCA is fitted: two rankTransform calls come
\* before PCA.fit_transform.
C25_BothNormalisedBeforeFit ==
    EmbedDone =>
        \E i, k \in PlacesIn(calls, "rankTransform") :
            /\ i # k
            /\ \A f \in PlacesIn(calls, "PCA.fit_transform") : i < f /\ k < f

\* C25, amended: the aligned query, and it alone, passes through
\* rankTransform before the PCA is fitted and applied: one rankTransform
\* call, before PCA.fit_transform and PCA.transform, and (without random
\* controls) the matrix that is embedded is the aligned query with every
\* column rank transformed.  The atlas matrix is fitted as read.
C25_QueryNormalisedBeforeFit ==
    EmbedDone =>
        /\ Cardinality(PlacesIn(calls, "rankTransform")) = 1
        /\ Cardinality(PlacesIn(calls, "PCA.fit_transform")) = 1
        /\ \A r \in PlacesIn(calls, "rankTransform") :
              \A f \in PlacesIn(calls, "PCA.fit_transform") :
                  /\ r < f
                  /\ \A t \in PlacesIn(calls, "PCA.transform") : f < t
        /\ ~includeRandomSamples =>
              result.coords.rows = [j \in DOMAIN aligned.data |-> RankColumn(aligned.data[j])]

\* a projection without random controls has returned, and the normaliser
\* changed the values of the aligned query
C25_Witness ==
    /\ Succeeded
    /\ ~includeRandomSamples
    /\ PlacesIn(calls, "rankTransform") # {}
    /\ PlacesIn(calls, "PCA.fit_transform") # {}
    /\ result.coords.rows # <<>>
    /\ result.coords.rows # aligned.data

----------------------------------------------------------------------------
\* Frame effects of the combined coordinates and of the random controls

\* C27: the row identifiers of result['coords'] are the sample ids of the
\* query (and random_i for the controls) whether or not includeCombinedCoords
\* is set: building combinedCoords leaves coords as it was.
C27_CoordsKeepSampleIds ==
    EmbedDone => result.coords.index = dfQuery.columns

\* C28: the random controls leave the real columns alone.  The columns
\* drawn at line 200 are pairwise distinct columns of the query, and after
\* the loop every column of the query is still in dfQuery, in its place and
\* with its rank-normalised values, whatever the names of the columns.
C28_RealColumnsKept ==
    /\ pc = "shuffle" /\ rndI = 0 =>
          /\ Range(rndCols) \subseteq Range(queryData.columns)
          /\ \A i, k \in DOMAIN rndCols : i # k => rndCols[i] # rndCols[k]
    /\ ControlsDone /\ includeRandomSamples =>
          \A j \in DOMAIN queryData.columns :
              /\ j \in DOMAIN dfQuery.columns
              /\ dfQuery.columns[j] = queryData.columns[j]
              /\ dfQuery.data[j] = RealColumns.data[j]

----------------------------------------------------------------------------
(* Atlas.heatmapData, src/models/atlases.py:300-357, called with geneIds   *)
(* and groupby and the defaults of its other arguments.  The data frame is *)
(* followed by its labels; its values play no part in what is returned     *)
(* beside it.                                                              *)

MaxGeneIds == 2

\* genes.tsv: the Ensembl id and the symbol of gene g of geneInfo.index
EnsemblIds == <<"ENSG1", "ENSG2", "ENSG3">>

Symbols == <<"CD14", "KIT", "ITGAX">>

\* what a caller may pass as a gene: an id or a symbol of genes.tsv, or an
\* id or a symbol it does not hold
GeneNames == {"ENSG1", "ENSG3", "ENSG9", "CD14", "ITGAX", "XYZ"}

\* line 307: g.startswith("ENS")
StartsWithENS(g) == g \in Range(EnsemblIds) \cup {"ENSG9"}

\* lines 145-151: the keys of the dictionary coloursAndOrdering returns,
\* those of colours.json, or none for {} when the file does not exist
coloursAndOrdering(exists) == IF exists THEN {"colours", "ordering"} ELSE {}

InitHeatmap ==
    /\ atlas \in Atlases
    /\ NoProjection
    /\ NoService
    /\ geneIds \in SeqsUpTo(GeneNames, MaxGeneIds)
    /\ groupby \in {"None"} \cup Range(sampleMatrix(atlas).columns)
    /\ coloursFile \in BOOLEAN
    /\ hmPc = "heatmapData"
    /\ hmLists = NoLists
    /\ hmResult = NoResponse

\* lines 304-312
HeatmapLists ==
    /\ hmPc = "heatmapData"
    /\ IF Len(geneIds) = 0
       THEN /\ hmResult' = [kind |-> "empty"]
            /\ hmPc' = "returned"
            /\ UNCHANGED hmLists
       ELSE /\ \E ids \in {IF StartsWithENS(geneIds[1]) THEN geneIds
                           ELSE SelectSeq(EnsemblIds,
                                          LAMBDA e : \E g \in Range(atlas.geneInfo.index) :
                                              /\ EnsemblIds[g] = e
                                              /\ Symbols[g] \in Range(geneIds))} :
                 \E included \in {{EnsemblIds[g] : g \in atlas.geneInfo.inclusion}} :
                 \E excluded \in {{EnsemblIds[g] : g \in Range(atlas.geneInfo.index)
                                                          \ atlas.geneInfo.inclusion}} :
                    hmLists' = [geneIds    |-> ids,
                                filtered   |-> Range(ids) \cap included,
                                unfiltered |-> Range(ids) \cap excluded,
                                notFound   |-> Range(ids) \ (included \cup excluded)]
            /\ hmPc' = "frame"
            /\ UNCHANGED hmResult
    /\ UNCHANGED <<atlas, projection, process, concurrent, service,
                   geneIds, groupby, coloursFile>>

\* lines 315-328: the columns of df are the samples, or their groups
HeatmapColumns ==
    IF groupby = "None" THEN Range(sampleMatrix(atlas).index)
    ELSE Range(Column(sampleMatrix(atlas), groupby))

\* lines 315-329
HeatmapFrame ==
    /\ hmPc = "frame"
    /\ IF Cardinality(HeatmapColumns) <= 1
       THEN /\ hmResult' = [kind  |-> "error",
                            error |-> "Not enough samples to render a heatmap."]
            /\ hmPc' = "returned"
       ELSE /\ hmPc' = "order"
            /\ UNCHANGED hmResult
    /\ UNCHANGED <<atlas, projection, process, concurrent, service,
                   geneIds, groupby, coloursFile, hmLists>>

\* lines 331-357: self.coloursAndOrdering()['ordering'] raises KeyError on
\* a dictionary without that key
HeatmapOrder ==
    /\ hmPc = "order"
    /\ IF "ordering" \in coloursAndOrdering(coloursFile)
       THEN /\ hmResult' =
                  [kind        |-> "heatmap",
                   filtered    |-> hmLists.filtered,
                   unfiltered  |-> hmLists.unfiltered,
                   notFound    |-> hmLists.notFound,
                   geneSymbols |-> {Symbols[g] : g \in {g \in DOMAIN EnsemblIds :
                                                  EnsemblIds[g] \in hmLists.filtered}},
                   dataframe   |-> [index |-> hmLists.filtered, columns |-> HeatmapColumns]]
            /\ hmPc' = "returned"
       ELSE /\ hmPc' = "raised"
            /\ UNCHANGED hmResult
    /\ UNCHANGED <<atlas, projection, process, concurrent, service,
                   geneIds, groupby, coloursFile, hmLists>>

NextHeatmap == HeatmapLists \/ HeatmapFrame \/ HeatmapOrder

SpecHeatmap == InitHeatmap /\ [][NextHeatmap]_vars

\* the genes of genes.tsv an input names: itself when it is an id of the
\* file, the genes with that symbol when it is a symbol
NamedBy(g) ==
    {e \in Range(EnsemblIds) :
        \E k \in Range(atlas.geneInfo.index) :
            EnsemblIds[k] = e /\ (g = e \/ g = Symbols[k])}

\* the lists of the result in which an input gene is accounted for: those
\* that hold it, or hold a gene it names
ListsWith(g) ==
    {l \in {"filtered", "unfiltered", "notFound"} :
        \/ g \in hmResult[l]
        \/ NamedBy(g) \cap hmResult[l] # {}}

\* C21: for every non-empty gene list given to heatmapData, ids or symbols,
\* the lists filtered, unfiltered and notFound it returns are pairwise
\* disjoint, and every input gene is accounted for in exactly one of them.
C21_InputGenesAccounted ==
    hmPc = "returned" /\ hmResult.kind = "heatmap" =>
        /\ hmResult.filtered \cap hmResult.unfiltered = {}
        /\ hmResult.filtered \cap hmResult.notFound = {}
        /\ hmResult.unfiltered \cap hmResult.notFound = {}
        /\ \A g \in Range(geneIds) : Cardinality(ListsWith(g)) = 1

\* C26: colours.json is optional.  Without it coloursAndOrdering returns an
\* empty dictionary and heatmapData does not raise: a call that has got to
\* the ordering of the columns returns its table and its lists of genes.
C26_ColoursOptional ==
    ~coloursFile =>
        /\ coloursAndOrdering(coloursFile) = {}
        /\ hmPc # "raised"
        /\ (hmPc = "returned" /\ Len(geneIds) > 0 /\ Cardinality(HeatmapColumns) > 1
                => hmResult.kind = "heatmap")

----------------------------------------------------------------------------
(* The server process.  It starts in the directory of app.py and serves    *)
(* its requests one after the other: /atlas-types (AtlasTypes.get, which   *)
(* calls atlasTypes) and a projection on an Atlas made without a version.  *)
(* Between any two steps the link <atlasType> of the atlas directory may   *)
(* be pointed to another version.  A directory is the sequence of its      *)
(* names from the root.                                                    *)

MaxRequests == 3

Versions == {"1.0", "1.1"}

\* the directories that hold atlas files: ATLAS_FILEPATH is set to the
\* first as an absolute path, or to the second as a path relative to the
\* directory the server starts in, <<"srv", "app">>
AtlasDirs == {<<"data", "atlas">>, <<"srv", "app", "atlas">>}

\* the directory a path names when the working directory is dir
Resolve(path, dir) == IF path.absolute THEN path.parts ELSE dir \o path.parts

InitService ==
    /\ atlas = AtlasDc
    /\ NoProjection
    /\ NoHeatmap
    /\ atlasFilePathEnv \in {[absolute |-> TRUE, parts |-> <<"data", "atlas">>],
                             [absolute |-> FALSE, parts |-> <<"atlas">>]}
    /\ cwd = <<"srv", "app">>
    /\ currentLink \in Versions
    /\ requests = 0
    /\ svcPc = "idle"
    /\ atlasObject = [directory |-> <<>>, version |-> "None"]
    /\ versionsRead = <<>>
    /\ logFiles = <<>>
    /\ listedDirs = <<>>

\* src/app.py:76-82: before the request is handled, a line is appended to
\* "app.log", a path relative to the working directory
RequestTracer ==
    /\ svcPc = "idle"
    /\ requests < MaxRequests
    /\ requests' = requests + 1
    /\ logFiles' = Append(logFiles, cwd \o <<"app.log">>)
    /\ svcPc' \in {"atlas-types", "projection"}
    /\ UNCHANGED <<atlas, projection, process, concurrent, heatmap, atlasFilePathEnv,
                   cwd, currentLink, atlasObject, versionsRead, listedDirs>>

\* src/resources/atlases.py:12-16 and atlasTypes, lines 59-72: os.chdir to
\* ATLAS_FILEPATH, then os.listdir() of the working directory.  os.chdir
\* raises when the directory does not exist.
AtlasTypesGet ==
    /\ svcPc = "atlas-types"
    /\ \E target \in {Resolve(atlasFilePathEnv, cwd)} :
          IF target \in AtlasDirs
          THEN /\ cwd' = target
               /\ listedDirs' = Append(listedDirs, target)
          ELSE /\ listedDirs' = Append(listedDirs, <<"FileNotFoundError">>)
               /\ UNCHANGED cwd
    /\ svcPc' = "idle"
    /\ UNCHANGED <<atlas, projection, process, concurrent, heatmap, atlasFilePathEnv,
                   currentLink, requests, atlasObject, versionsRead, logFiles>>

\* Atlas(atlasType), lines 91-99: the path of the object is the link
\* itself, its version the one the link points to at this moment.
\* os.readlink raises when the path does not exist.
ProjectionConstruct ==
    /\ svcPc = "projection"
    /\ \E target \in {Resolve(atlasFilePathEnv, cwd)} :
          IF target \in AtlasDirs
          THEN /\ atlasObject' = [directory |-> target \o <<atlas.atlasType>>,
                                  version   |-> currentLink]
               /\ svcPc' = "read for coords"
          ELSE /\ svcPc' = "idle"
               /\ UNCHANGED atlasObject
    /\ versionsRead' = <<>>
    /\ UNCHANGED <<atlas, projection, process, concurrent, heatmap, atlasFilePathEnv,
                   cwd, currentLink, requests, logFiles, listedDirs>>

\* lines 175-177 (projection) and 256-259 (capybara): the files are read
\* through self.atlasFilePath, that is from the version the link points to
\* when they are read
ProjectionRead ==
    /\ svcPc \in {"read for coords", "read for capybara"}
    /\ versionsRead' = Append(versionsRead, currentLink)
    /\ svcPc' = IF svcPc = "read for coords" THEN "read for capybara" ELSE "idle"
    /\ UNCHANGED <<atlas, projection, process, concurrent, heatmap, atlasFilePathEnv,
                   cwd, currentLink, requests, atlasObject, logFiles, listedDirs>>

\* a new version is published: the link <atlasType> is pointed to it
Repoint ==
    /\ currentLink' \in Versions \ {currentLink}
    /\ UNCHANGED <<atlas, projection, process, concurrent, heatmap, atlasFilePathEnv,
                   cwd, requests, svcPc, atlasObject, versionsRead, logFiles, listedDirs>>

NextService ==
    \/ RequestTracer
    \/ AtlasTypesGet
    \/ ProjectionConstruct
    \/ ProjectionRead
    \/ Repoint

SpecService == InitService /\ [][NextService]_vars

\* C29: a projection on an Atlas made without a version reads the files of
\* its coords and of its capybara scores from one version, the version
\* field of the object, wherever the link is pointed in the meantime.
C29_OneVersionPerCall ==
    \A i \in DOMAIN versionsRead : versionsRead[i] = atlasObject.version

\* C30: listing the atlas types leaves the state of the process as it was:
\* the tracer appends to one and the same app.log before every request, and
\* every atlasTypes call lists one and the same directory.
C30_AtlasTypesKeepsProcessState ==
    /\ \A i \in DOMAIN logFiles : logFiles[i] = logFiles[1]
    /\ \A i \in DOMAIN listedDirs : listedDirs[i] = listedDirs[1]

====
